---- MODULE Spec2Model ----
(***************************************************************************)
(* Order lifecycle, delivery reconciliation and notification confirmation  *)
(* of the inventory-manager backend (functions/src).                       *)
(*                                                                         *)
(* The document store is the shared state.  Every remotely callable        *)
(* function, and the document-written trigger, is an invocation run by a   *)
(* process; an invocation takes one step per awaited store operation, in   *)
(* the order of the source, so that a failure between two store operations *)
(* and the interleaving of two invocations are behaviours of the model.    *)
(* Timestamps are natural numbers >= 1; 0 stands for an absent field.      *)
(***************************************************************************)
EXTENDS Integers, Sequences, FiniteSets, TLC

\* ------------------------------------------------------------------ bounds
\* Invocations started in one behaviour.
MaxCalls == 2

\* ------------------------------------------------------------------ inputs
Procs == {"p1", "p2"}
RestaurantId == "r1"
OrderIds == {"o1", "o2"}
\* Order ids a caller may pass: the ids the store hands out, and an unknown one.
CallOrderIds == OrderIds \cup {"o9"}
\* Inventory documents of the restaurant, and an id with no document.
ItemIds == {"A", "B"}
\* The id the store gives the document of addInventoryItem.
NewItemId == "C"
\* Item ids a caller may pass.
CallItemIds == ItemIds \cup {NewItemId}
\* InventoryItem.updateFrequency, and "" for a document without the field.
UpdateFrequencies == {"daily", "weekly", "monthly"}
\* restaurants/r1/suppliers: the contact method of each supplier document.
\* An order may also name a supplier that has no document.
suppliers ==
  [s \in {"sEmail", "sEmailEmpty", "sPhone", "sNoContact"} |->
     CASE s = "sEmail" -> [type |-> "email", emails |-> 1]
       [] s = "sEmailEmpty" -> [type |-> "email", emails |-> 0]
       [] s = "sPhone" -> [type |-> "phone", emails |-> 0]
       [] s = "sNoContact" -> [type |-> "none", emails |-> 0]]
CallSupplierIds == DOMAIN suppliers \cup {"sGone"}
\* The status argument of updateOrderStatus: the five statuses and a bad one.
Statuses == {"pending", "sent", "confirmed", "delivered", "cancelled"}
CallStatuses == Statuses \cup {"bogus"}

LineItem(id, rq) ==
  [id |-> id, name |-> id, unit |-> "kg", currentQuantity |-> 1,
   orderQuantity |-> 3, receivedQuantity |-> rq]
\* The items of a createOrder payload.
NewOrderItems ==
  { <<>>,
    <<LineItem("A", 0)>>,
    <<LineItem("A", 0), LineItem("B", 0)>>,
    <<LineItem("A", 1)>> }

\* The entries of a receivedItems payload: two amounts of A, an amount of B
\* and a negative one, and an item C that has no inventory document.
ReceivedItem(id, quantity) ==
  [id |-> id, name |-> id, unit |-> "kg", quantity |-> quantity]
RecvEntry ==
  { ReceivedItem("A", 1), ReceivedItem("A", 2), ReceivedItem("B", 2),
    ReceivedItem("B", -1), ReceivedItem("C", 1) }
\* The receivedItems payloads: no entry, one, or two (which may name the same
\* item twice).
Payloads ==
  {<<>>} \cup {<<e>> : e \in RecvEntry}
         \cup {<<e, f>> : e \in RecvEntry, f \in RecvEntry}

\* The entries of a takeInventory payload: a count of A, two of B, one of
\* them negative, and a count of an item that may have no inventory document.
TakeInventoryItem(id, quantity) ==
  [id |-> id, name |-> id, quantity |-> quantity]
TakeEntry ==
  { TakeInventoryItem("A", 2), TakeInventoryItem("B", 0),
    TakeInventoryItem("B", -1), TakeInventoryItem(NewItemId, 1) }
TakePayloads ==
  {<<>>} \cup {<<e>> : e \in TakeEntry}
         \cup {<<e, f>> : e \in TakeEntry, f \in TakeEntry}
\* The item of an addInventoryItem payload and the updateData of an
\* updateInventoryItem payload.
NewItems ==
  {[currentQuantity |-> q, updateFrequency |-> "weekly"] : q \in {-1, 2}}
UpdateData == {[currentQuantity |-> q] : q \in {-1, 0, 3}}

VARIABLES
  orders,     \* restaurants/r1/orders: id -> order document
  inventory,  \* restaurants/r1/inventory: id -> item document
  history,    \* restaurants/r1/inventory/<id>/history: id -> records, oldest first
  emails,     \* emails: the notification documents, in creation order
  calls,      \* invocations started so far
  pc,         \* per process: the awaited store operation it is at
  op,         \* per process: the function it runs (kept after it returns)
  arg,        \* per process: the request data
  loc,        \* per process: what it has read so far
  err         \* per process: the error its last invocation threw, or "none"

vars == <<orders, inventory, history, emails, calls,
          pc, op, arg, loc, err>>
store == <<orders, inventory, history, emails>>

NoArg == [orderId |-> "-", status |-> "-", items |-> <<>>, emailId |-> 0,
          supplierId |-> "-", id |-> "-",
          item |-> [currentQuantity |-> 0, updateFrequency |-> ""],
          updateData |-> [currentQuantity |-> 0]]
NullOrder == [supplierId |-> "-", items |-> <<>>, status |-> "-",
              createdAt |-> 0, cancelledAt |-> 0, lastUpdated |-> 0]
NoLoc == [order |-> NullOrder, itemsById |-> <<>>, k |-> 0]

\* new Date(): the clock, which has advanced by one with every invocation
\* since the documents of the initial state were written at time 1.
now == calls + 1

\* The order createOrder stores for a payload.
NewOrderDoc(supplierId, items) ==
  [supplierId |-> supplierId, items |-> items, status |-> "pending",
   createdAt |-> now, cancelledAt |-> 0, lastUpdated |-> 0]

\* A restaurant with two inventory items and one pending order for item A.
Init ==
  /\ calls = 0
  /\ orders = [o \in {"o1"} |-> NewOrderDoc("sEmail", <<LineItem("A", 0)>>)]
  /\ inventory = [i \in ItemIds |->
                    [currentQuantity |-> 1, lastUpdated |-> 1,
                     updateFrequency |-> "daily"]]
  /\ history = [i \in CallItemIds |-> <<>>]
  /\ emails = <<>>
  /\ pc = [p \in Procs |-> "idle"]
  /\ op = [p \in Procs |-> "none"]
  /\ arg = [p \in Procs |-> NoArg]
  /\ loc = [p \in Procs |-> NoLoc]
  /\ err = [p \in Procs |-> "none"]

\* ------------------------------------------------------------ invocations
\* The invocation of p returns normally (e = "none") or throws e.
Return(p, e) ==
  /\ pc' = [pc EXCEPT ![p] = "idle"]
  /\ err' = [err EXCEPT ![p] = e]
  /\ arg' = [arg EXCEPT ![p] = NoArg]
  /\ loc' = [loc EXCEPT ![p] = NoLoc]
  /\ UNCHANGED <<op, calls>>

\* The store rejects the write p awaits: the invocation throws there.
Rejects(p) ==
  /\ Return(p, "store failure")
  /\ UNCHANGED <<orders, inventory, history, emails>>

\* The errors that are instances of ApiError: no throw statement of the
\* services, the validators or the handlers constructs one.
ApiErrors == {}

\* The message of the HttpsError that errorHandler makes of a caught error.
errorHandler(error) ==
  IF error \in ApiErrors THEN error ELSE "An unexpected error occurred"

\* What the caller of p's invocation receives as the error: err[p] is the
\* error caught by the handler, which throws new Error(httpsError.message).
thrownToCaller(p) ==
  IF err[p] = "none" THEN "none" ELSE errorHandler(err[p])

\* The invocation of p goes on to its next awaited operation.
Goto(p, label) ==
  /\ pc' = [pc EXCEPT ![p] = label]
  /\ UNCHANGED <<op, arg, err, calls>>


\* ------------------------------------------------------------- validation
validateOrderStatus(status) ==
  IF status \in Statuses THEN "none" ELSE "Invalid order status"

\* The per-item checks of validateOrder and validateOrderPartial.
validateOrderItem(item) ==
  IF item.id = "" THEN "Item ID is required"
  ELSE IF item.name = "" THEN "Item name is required"
  ELSE IF item.currentQuantity < 0 THEN "Current quantity cannot be negative"
  ELSE IF item.orderQuantity < 0 THEN "Order quantity cannot be negative"
  ELSE IF item.receivedQuantity < 0 THEN "Received quantity cannot be negative"
  ELSE IF item.unit = "" THEN "Unit is required"
  ELSE "none"

\* The error of the first item of items that fails its checks, or "none".
validateOrderItems(items) ==
  IF Len(items) = 0 THEN "Items array cannot be empty"
  ELSE IF \E k \in DOMAIN items : validateOrderItem(items[k]) # "none"
  THEN LET k == CHOOSE k \in DOMAIN items :
                  /\ validateOrderItem(items[k]) # "none"
                  /\ \A j \in 1..(k - 1) : validateOrderItem(items[j]) = "none"
       IN validateOrderItem(items[k])
  ELSE "none"

validateOrder(order) == validateOrderItems(order.items)

validateOrderPartial(updateData) == validateOrderItems(updateData.items)

\* The validation without its test of currentQuantity.
validateInventoryItemPartial_AnyQuantity(item) == "none"

validateInventoryItemPartial(item) ==
  IF item.currentQuantity < 0 THEN "Current quantity cannot be negative"
  ELSE "none"

validateInventoryItemHistory(itemId, record) ==
  IF itemId = "" THEN "Item ID is required"
  ELSE IF record.date = 0 THEN "Date is required"
  ELSE IF record.type \notin {"tookInventory", "receivedOrder"}
  THEN "Invalid history record type"
  ELSE IF record.amount < 0 THEN "Amount cannot be negative"
  ELSE "none"

\* The error of the first element of a list of errors that is one, or "none".
FirstError(es) ==
  IF \E k \in DOMAIN es : es[k] # "none"
  THEN es[CHOOSE k \in DOMAIN es :
            es[k] # "none" /\ \A j \in 1..(k - 1) : es[j] = "none"]
  ELSE "none"

\* ------------------------------------------------------ store operations
\* FirestoreService.updateOrderDocStatus, the last awaited call of its caller.
updateOrderDocStatus(p, id, status) ==
  LET e == validateOrderStatus(status) IN
  IF e # "none" THEN Return(p, e) /\ UNCHANGED store
  ELSE IF id \notin DOMAIN orders
  THEN Return(p, "NOT_FOUND: no document to update") /\ UNCHANGED store
  ELSE \/ /\ orders' = [orders EXCEPT ![id].status = status,
                                      ![id].lastUpdated = now]
          /\ UNCHANGED <<inventory, history, emails>>
          /\ Return(p, "none")
       \/ Rejects(p)

\* The id the store gives the next order document.
NewOrderId == CHOOSE o \in OrderIds \ DOMAIN orders :
                \A q \in OrderIds \ DOMAIN orders : o = "o1" \/ q # "o1"

\* ------------------------------------------------------------ the request
\* A client calls one of the functions: the request data is stored and the
\* invocation is at its first awaited operation.
Call(p, f, a, label) ==
  /\ pc[p] = "idle"
  /\ calls < MaxCalls
  /\ calls' = calls + 1
  /\ pc' = [pc EXCEPT ![p] = label]
  /\ op' = [op EXCEPT ![p] = f]
  /\ arg' = [arg EXCEPT ![p] = a]
  /\ err' = [err EXCEPT ![p] = "none"]
  /\ UNCHANGED <<store, loc>>

CallCreateOrder(p) ==
  \E s \in CallSupplierIds, items \in NewOrderItems :
    /\ OrderIds \ DOMAIN orders # {}
    /\ Call(p, "createOrder",
            [NoArg EXCEPT !.supplierId = s, !.items = items], "co_addOrderDoc")

CallUpdateOrderStatus(p) ==
  \E o \in CallOrderIds, s \in CallStatuses :
    Call(p, "updateOrderStatus",
         [NoArg EXCEPT !.orderId = o, !.status = s], "uos_updateStatus")

CallCancelOrder(p) ==
  \E o \in CallOrderIds :
    Call(p, "cancelOrder", [NoArg EXCEPT !.orderId = o], "cn_get")

CallSendOrder(p) ==
  \E o \in CallOrderIds :
    Call(p, "sendOrder", [NoArg EXCEPT !.orderId = o], "so_getOrder")

CallRecordOrderDelivery(p) ==
  \E o \in CallOrderIds, r \in Payloads :
    Call(p, "recordOrderDelivery",
         [NoArg EXCEPT !.orderId = o, !.items = r], "rod_getOrder")

\* The document-written trigger runs for a notification document: for its
\* creation, for an update by the provider, or once more for either.
CallOnEmailDeliveryStatusUpdate(p) ==
  \E e \in DOMAIN emails :
    Call(p, "onEmailDeliveryStatusUpdate",
         [NoArg EXCEPT !.emailId = e], "tr_getEmail")

\* ------------------------------------------------------------ createOrder
CreateOrder(p) ==
  /\ pc[p] = "co_addOrderDoc"
  /\ LET items == arg[p].items
         orderDoc == NewOrderDoc(arg[p].supplierId, items)
         e == IF Len(items) = 0 THEN "Order must contain at least one item"
              ELSE validateOrder(orderDoc)
     IN IF e # "none" THEN Return(p, e) /\ UNCHANGED store
        ELSE \/ /\ orders' = [o \in DOMAIN orders \cup {NewOrderId} |->
                                IF o = NewOrderId THEN orderDoc ELSE orders[o]]
                /\ UNCHANGED <<inventory, history, emails>>
                /\ Return(p, "none")
             \/ Rejects(p)

\* ------------------------------------------------------ updateOrderStatus
\* The handler without its check of the status argument.
updateOrderStatusCheck_Unchecked(status) == "none"

updateOrderStatusCheck(status) ==
  IF status = "delivered"
  THEN "Order status can not be updated to delivered"
  ELSE "none"

UpdateOrderStatus(p) ==
  /\ pc[p] = "uos_updateStatus"
  /\ LET e == updateOrderStatusCheck(arg[p].status) IN
     IF e # "none" THEN Return(p, e) /\ UNCHANGED store
     ELSE updateOrderDocStatus(p, arg[p].orderId, arg[p].status)

\* ------------------------------------------------------------ cancelOrder
\* The check without its test of the stored status.
cancelOrderCheck_NoStatusTest(id) ==
  IF id \notin DOMAIN orders THEN "Order not found" ELSE "none"

cancelOrderCheck(id) ==
  IF id \notin DOMAIN orders THEN "Order not found"
  ELSE IF orders[id].status \in {"delivered", "cancelled"}
  THEN "Cannot cancel order that is alreadydelivered or cancelled"
  ELSE "none"

CancelOrderGet(p) ==
  /\ pc[p] = "cn_get"
  /\ LET e == cancelOrderCheck(arg[p].orderId) IN
     IF e # "none" THEN Return(p, e) /\ UNCHANGED store
     ELSE Goto(p, "cn_update") /\ UNCHANGED <<store, loc>>

CancelOrderUpdate(p) ==
  /\ pc[p] = "cn_update"
  /\ \/ /\ orders' = [orders EXCEPT ![arg[p].orderId].status = "cancelled",
                                    ![arg[p].orderId].cancelledAt = now]
        /\ UNCHANGED <<inventory, history, emails>>
        /\ Return(p, "none")
     \/ Rejects(p)


\* -------------------------------------------------------------- sendOrder
\* sendOrder that only looks for the order, not at its status.
sendOrderCheck_AnyStatus(id) ==
  IF id \notin DOMAIN orders THEN "Order not found" ELSE "none"

\* sendOrder behind a lock on the order: it is refused while another
\* sendOrder of the same order is between its check and its status write.
sendOrderCheck_OneSender(id) ==
  IF id \notin DOMAIN orders THEN "Order not found"
  ELSE IF \/ orders[id].status # "pending"
          \/ \E q \in Procs :
               /\ pc[q] \in {"so_getSupplier", "so_createOrderEmail",
                             "so_addEmailDoc", "so_updateStatus"}
               /\ arg[q].orderId = id
  THEN "Only pending orders can be sent"
  ELSE "none"

sendOrderCheck(id) ==
  IF id \notin DOMAIN orders THEN "Order not found"
  ELSE IF orders[id].status # "pending" THEN "Only pending orders can be sent"
  ELSE "none"

\* OrdersService.sendOrder: the supplier document and its contact method.
sendOrderSupplierCheck(supplierId) ==
  IF supplierId \notin DOMAIN suppliers THEN "Supplier not found"
  ELSE IF suppliers[supplierId].type # "email"
  THEN "Invalid supplier contact method"
  ELSE "none"

\* EmailService.createOrderEmail: the supplier document, read again.
\* createOrderEmail that does not look at the list of addresses.
createOrderEmailCheck_NoAddressCheck(supplierId) ==
  IF \/ supplierId \notin DOMAIN suppliers
     \/ suppliers[supplierId].type # "email"
  THEN "Supplier does not have email contact method"
  ELSE "none"

createOrderEmailCheck(supplierId) ==
  IF \/ supplierId \notin DOMAIN suppliers
     \/ suppliers[supplierId].type # "email"
     \/ suppliers[supplierId].emails = 0
  THEN "Supplier does not have email contact method"
  ELSE "none"

\* The document createOrderEmail hands to addEmailDoc: no restaurantId, and
\* no delivery record until the provider writes one.
OrderEmailData(id) ==
  [orderId |-> id, restaurantId |-> "-", state |-> "NONE"]

SendOrderGetOrder(p) ==
  /\ pc[p] = "so_getOrder"
  /\ LET e == sendOrderCheck(arg[p].orderId) IN
     IF e # "none" THEN Return(p, e) /\ UNCHANGED store
     ELSE /\ loc' = [loc EXCEPT ![p].order = orders[arg[p].orderId]]
          /\ Goto(p, "so_getSupplier")
          /\ UNCHANGED store

SendOrderGetSupplier(p) ==
  /\ pc[p] = "so_getSupplier"
  /\ LET e == sendOrderSupplierCheck(loc[p].order.supplierId) IN
     IF e # "none" THEN Return(p, e) /\ UNCHANGED store
     ELSE Goto(p, "so_createOrderEmail") /\ UNCHANGED <<store, loc>>

\* sendOrder that goes on to the status write without adding the document.
SendOrderCreateOrderEmail_NoDocument(p) ==
  /\ pc[p] = "so_createOrderEmail"
  /\ Goto(p, "so_updateStatus")
  /\ UNCHANGED <<store, loc>>

SendOrderCreateOrderEmail(p) ==
  /\ pc[p] = "so_createOrderEmail"
  /\ LET e == createOrderEmailCheck(loc[p].order.supplierId) IN
     IF e # "none" THEN Return(p, e) /\ UNCHANGED store
     ELSE Goto(p, "so_addEmailDoc") /\ UNCHANGED <<store, loc>>

SendOrderAddEmailDoc(p) ==
  /\ pc[p] = "so_addEmailDoc"
  /\ \/ /\ emails' = Append(emails, OrderEmailData(arg[p].orderId))
        /\ UNCHANGED <<orders, inventory, history, loc>>
        /\ Goto(p, "so_updateStatus")
     \/ Rejects(p)

SendOrderUpdateStatus(p) ==
  /\ pc[p] = "so_updateStatus"
  /\ updateOrderDocStatus(p, arg[p].orderId, "sent")

\* ---------------------------------------------------- recordOrderDelivery
\* recordOrderDelivery that only looks for the order, not at its status.
recordOrderDeliveryCheck_AnyStatus(id) ==
  IF id \notin DOMAIN orders THEN "Order not found" ELSE "none"

recordOrderDeliveryCheck(id) ==
  IF id \notin DOMAIN orders THEN "Order not found"
  ELSE IF orders[id].status = "delivered" THEN "Order already delivered"
  ELSE "none"

\* receivedItems.reduce(...): id -> quantity, a later entry replacing an
\* earlier one with the same id.
receivedQuantitiesById(receivedItems) ==
  [i \in {receivedItems[k].id : k \in DOMAIN receivedItems} |->
     LET last == CHOOSE k \in DOMAIN receivedItems :
                   /\ receivedItems[k].id = i
                   /\ \A j \in DOMAIN receivedItems :
                        receivedItems[j].id = i => j <= k
     IN receivedItems[last].quantity]

\* The map without its "|| 0": an item absent from the payload keeps the
\* receivedQuantity it had.
updatedItems_NoDefault(items, receivedItems) ==
  LET byId == receivedQuantitiesById(receivedItems) IN
  [k \in DOMAIN items |->
     IF items[k].id \in DOMAIN byId
     THEN [items[k] EXCEPT !.receivedQuantity = byId[items[k].id]]
     ELSE items[k]]

\* order.items.map(...): receivedQuantitiesById[item.id] || 0.
updatedItems(items, receivedItems) ==
  LET byId == receivedQuantitiesById(receivedItems) IN
  [k \in DOMAIN items |->
     [items[k] EXCEPT !.receivedQuantity =
        IF items[k].id \in DOMAIN byId /\ byId[items[k].id] # 0
        THEN byId[items[k].id] ELSE 0]]

\* The argument of batchUpdateInventoryDocs.
quantityUpdates(receivedItems, itemsById) ==
  [k \in DOMAIN receivedItems |->
     [id |-> receivedItems[k].id,
      currentQuantity |-> itemsById[receivedItems[k].id].currentQuantity
                            + receivedItems[k].quantity,
      lastUpdated |-> now]]

\* History records that carry the item's new quantity, not the amount received.
historyRecords_NewQuantity(receivedItems) ==
  [k \in DOMAIN receivedItems |->
     [itemId |-> receivedItems[k].id,
      record |-> [date |-> now,
                  amount |-> inventory[receivedItems[k].id].currentQuantity,
                  type |-> "receivedOrder"]]]

\* The argument of batchAddInventoryHistoryDocs.
historyRecords(receivedItems) ==
  [k \in DOMAIN receivedItems |->
     [itemId |-> receivedItems[k].id,
      record |-> [date |-> now, amount |-> receivedItems[k].quantity,
                  type |-> "receivedOrder"]]]

\* A committed batch that also stamps the documents it has no update for.
batchUpdated_AllStamped(docs, updates) ==
  [i \in DOMAIN docs |->
     IF \E k \in DOMAIN updates : updates[k].id = i
     THEN LET last == CHOOSE k \in DOMAIN updates :
                        /\ updates[k].id = i
                        /\ \A j \in DOMAIN updates : updates[j].id = i => j <= k
          IN [docs[i] EXCEPT !.currentQuantity = updates[last].currentQuantity,
                             !.lastUpdated = updates[last].lastUpdated]
     ELSE [docs[i] EXCEPT !.lastUpdated = now]]

\* A committed batch of updates: per document the last update of the batch.
batchUpdated(docs, updates) ==
  [i \in DOMAIN docs |->
     IF \E k \in DOMAIN updates : updates[k].id = i
     THEN LET last == CHOOSE k \in DOMAIN updates :
                        /\ updates[k].id = i
                        /\ \A j \in DOMAIN updates : updates[j].id = i => j <= k
          IN [docs[i] EXCEPT !.currentQuantity = updates[last].currentQuantity,
                             !.lastUpdated = updates[last].lastUpdated]
     ELSE docs[i]]

\* The records of a batch that go to item i, in the order of the batch.
RECURSIVE recordsFor(_, _)
recordsFor(items, i) ==
  IF items = <<>> THEN <<>>
  ELSE IF Head(items).itemId = i
       THEN <<Head(items).record>> \o recordsFor(Tail(items), i)
       ELSE recordsFor(Tail(items), i)

RecordOrderDeliveryGetOrder(p) ==
  /\ pc[p] = "rod_getOrder"
  /\ LET e == recordOrderDeliveryCheck(arg[p].orderId) IN
     IF e # "none" THEN Return(p, e) /\ UNCHANGED store
     ELSE /\ loc' = [loc EXCEPT ![p].order = orders[arg[p].orderId]]
          /\ Goto(p, "rod_getAllInventoryDocs")
          /\ UNCHANGED store

RecordOrderDeliveryGetInventory(p) ==
  /\ pc[p] = "rod_getAllInventoryDocs"
  /\ loc' = [loc EXCEPT ![p].itemsById = inventory]
  /\ Goto(p, "rod_updateOrder")
  /\ UNCHANGED store

\* The order write put off: the invocation goes on to its batches with the
\* order document as it was read.
RecordOrderDeliveryUpdateOrder_BatchesFirst(p) ==
  /\ pc[p] = "rod_updateOrder"
  /\ LET updateData == [items |-> updatedItems(loc[p].order.items, arg[p].items),
                        status |-> "delivered"]
         e == validateOrderPartial(updateData)
     IN IF e # "none" THEN Return(p, e) /\ UNCHANGED store
        ELSE /\ UNCHANGED <<store, loc>>
             /\ Goto(p, "rod_batchUpdateInventoryDocs")

RecordOrderDeliveryUpdateOrder(p) ==
  /\ pc[p] = "rod_updateOrder"
  /\ LET updateData == [items |-> updatedItems(loc[p].order.items, arg[p].items),
                        status |-> "delivered"]
         e == validateOrderPartial(updateData)
     IN IF e # "none" THEN Return(p, e) /\ UNCHANGED store
        ELSE \/ /\ orders' = [orders EXCEPT
                                ![arg[p].orderId].items = updateData.items,
                                ![arg[p].orderId].status = updateData.status]
                /\ UNCHANGED <<inventory, history, emails, loc>>
                /\ Goto(p, "rod_batchUpdateInventoryDocs")
             \/ Rejects(p)

\* The quantity batch for the received items that have an inventory
\* document, the others passed over.
RecordOrderDeliveryBatchUpdate_SkipUnknown(p) ==
  /\ pc[p] = "rod_batchUpdateInventoryDocs"
  /\ LET known(r) == r.id \in DOMAIN inventory
         items == quantityUpdates(SelectSeq(arg[p].items, known), inventory)
     IN /\ inventory' = batchUpdated(inventory, items)
        /\ UNCHANGED <<orders, history, emails, loc>>
        /\ Goto(p, "rod_batchAddInventoryHistoryDocs")

RecordOrderDeliveryBatchUpdate(p) ==
  /\ pc[p] = "rod_batchUpdateInventoryDocs"
  /\ LET receivedItems == arg[p].items
         itemsById == loc[p].itemsById
     IN IF \E k \in DOMAIN receivedItems :
               receivedItems[k].id \notin DOMAIN itemsById
        THEN \* itemsById[item.id] is undefined
             /\ Return(p, "TypeError: cannot read properties of undefined")
             /\ UNCHANGED store
        ELSE LET items == quantityUpdates(receivedItems, itemsById)
                 e == FirstError([k \in DOMAIN items |->
                                    validateInventoryItemPartial(items[k])])
             IN IF e # "none" THEN Return(p, e) /\ UNCHANGED store
                ELSE IF \E k \in DOMAIN items : items[k].id \notin DOMAIN inventory
                THEN /\ Return(p, "NOT_FOUND: no document to update")
                     /\ UNCHANGED store
                ELSE \/ /\ inventory' = batchUpdated(inventory, items)
                        /\ UNCHANGED <<orders, history, emails, loc>>
                        /\ Goto(p, "rod_batchAddInventoryHistoryDocs")
                     \/ Rejects(p)

\* The history batch with a compensation: when the store rejects the batch,
\* the order document is put back as it was read.
RecordOrderDeliveryBatchHistory_RollingBack(p) ==
  /\ pc[p] = "rod_batchAddInventoryHistoryDocs"
  /\ LET items == historyRecords(arg[p].items)
         e == FirstError([k \in DOMAIN items |->
                validateInventoryItemHistory(items[k].itemId, items[k].record)])
     IN IF e # "none" THEN Return(p, e) /\ UNCHANGED store
        ELSE \/ /\ history' = [i \in DOMAIN history |->
                                 history[i] \o recordsFor(items, i)]
                /\ UNCHANGED <<orders, inventory, emails>>
                /\ Return(p, "none")
             \/ /\ orders' = [orders EXCEPT ![arg[p].orderId] = loc[p].order]
                /\ UNCHANGED <<inventory, history, emails>>
                /\ Return(p, "store failure")

RecordOrderDeliveryBatchHistory(p) ==
  /\ pc[p] = "rod_batchAddInventoryHistoryDocs"
  /\ LET items == historyRecords(arg[p].items)
         e == FirstError([k \in DOMAIN items |->
                validateInventoryItemHistory(items[k].itemId, items[k].record)])
     IN IF e # "none" THEN Return(p, e) /\ UNCHANGED store
        ELSE \/ /\ history' = [i \in DOMAIN history |->
                                 history[i] \o recordsFor(items, i)]
                /\ UNCHANGED <<orders, inventory, emails>>
                /\ Return(p, "none")
             \/ Rejects(p)

\* ------------------------------------------- onEmailDeliveryStatusUpdate
onEmailDeliveryStatusUpdateCheck(email) ==
  /\ email.state = "SUCCESS"
  /\ email.restaurantId # "-"
  /\ email.orderId # "-"

OnEmailDeliveryStatusUpdateGetEmail(p) ==
  /\ pc[p] = "tr_getEmail"
  /\ UNCHANGED <<store, loc>>
  /\ IF onEmailDeliveryStatusUpdateCheck(emails[arg[p].emailId])
     THEN Goto(p, "tr_updateStatus")
     ELSE Return(p, "none")

\* The write as a toggle: it takes back the confirmation of a confirmed order.
OnEmailDeliveryStatusUpdateUpdateStatus_Toggle(p) ==
  /\ pc[p] = "tr_updateStatus"
  /\ LET o == emails[arg[p].emailId].orderId IN
     updateOrderDocStatus(p, o,
       IF o \in DOMAIN orders /\ orders[o].status = "confirmed"
       THEN "sent" ELSE "confirmed")

OnEmailDeliveryStatusUpdateUpdateStatus(p) ==
  /\ pc[p] = "tr_updateStatus"
  /\ updateOrderDocStatus(p, emails[arg[p].emailId].orderId, "confirmed")

\* ------------------------------------------------------------ environment
\* The notification provider writes the delivery record of a document.
ProviderDelivery ==
  \E e \in DOMAIN emails, st \in {"PENDING", "SUCCESS", "FAILURE"} :
    /\ emails[e].state # st
    /\ emails' = [emails EXCEPT ![e].state = st]
    /\ UNCHANGED <<orders, inventory, history, calls, pc, op, arg, loc, err>>

\* A notification document of type OrderEmail, with its restaurantId, is
\* written to the emails collection by another writer of the store.
OrderEmailWritten ==
  \E o \in OrderIds :
    /\ calls < MaxCalls
    /\ calls' = calls + 1
    /\ emails' = Append(emails, [orderId |-> o, restaurantId |-> RestaurantId,
                                 state |-> "NONE"])
    /\ UNCHANGED <<orders, inventory, history, pc, op, arg, loc, err>>

\* ------------------------------------------------------ addInventoryItem
validateInventoryItem(item) ==
  IF item.updateFrequency \notin UpdateFrequencies
  THEN "Invalid update frequency"
  ELSE IF item.currentQuantity < 0
  THEN "Current quantity cannot be undefined or negative"
  ELSE "none"

CallAddInventoryItem(p) ==
  \E item \in NewItems :
    /\ NewItemId \notin DOMAIN inventory
    /\ Call(p, "addInventoryItem", [NoArg EXCEPT !.item = item],
            "ai_addInventoryDoc")

AddInventoryItem(p) ==
  /\ pc[p] = "ai_addInventoryDoc"
  /\ LET item == arg[p].item
         e == validateInventoryItem(item)
     IN IF e # "none" THEN Return(p, e) /\ UNCHANGED store
        ELSE \/ /\ inventory' =
                     [i \in DOMAIN inventory \cup {NewItemId} |->
                        IF i = NewItemId
                        THEN [currentQuantity |-> item.currentQuantity,
                              lastUpdated |-> now,
                              updateFrequency |-> item.updateFrequency]
                        ELSE inventory[i]]
                /\ UNCHANGED <<orders, history, emails>>
                /\ Return(p, "none")
             \/ Rejects(p)

\* --------------------------------------------------- updateInventoryItem
\* doc.update({...item}): the fields of item replace those of the document.
updatedInventoryDoc(doc, item) ==
  [f \in DOMAIN doc |-> IF f \in DOMAIN item THEN item[f] ELSE doc[f]]

\* FirestoreService.updateInventoryDoc: the inventory collection after it,
\* which is the collection before it when it throws.
updateInventoryDoc(id, item) ==
  IF validateInventoryItemPartial(item) # "none" \/ id \notin DOMAIN inventory
  THEN inventory
  ELSE [inventory EXCEPT ![id] = updatedInventoryDoc(inventory[id], item)]

\* What updateInventoryDoc throws, or "none".
updateInventoryDocError(id, item) ==
  IF validateInventoryItemPartial(item) # "none"
  THEN validateInventoryItemPartial(item)
  ELSE IF id \notin DOMAIN inventory THEN "NOT_FOUND: no document to update"
  ELSE "none"

CallUpdateInventoryItem(p) ==
  \E i \in CallItemIds, u \in UpdateData :
    Call(p, "updateInventoryItem", [NoArg EXCEPT !.id = i, !.updateData = u],
         "ui_updateInventoryDoc")

UpdateInventoryItem(p) ==
  /\ pc[p] = "ui_updateInventoryDoc"
  /\ LET e == updateInventoryDocError(arg[p].id, arg[p].updateData) IN
     IF e # "none" THEN Return(p, e) /\ UNCHANGED store
     ELSE \/ /\ inventory' = updateInventoryDoc(arg[p].id, arg[p].updateData)
             /\ UNCHANGED <<orders, history, emails>>
             /\ Return(p, "none")
          \/ Rejects(p)

\* --------------------------------------------------------- takeInventory
validateTakeInventoryItem(item) ==
  IF item.id = "" THEN "Item ID is required"
  ELSE IF item.name = "" THEN "Item name is required"
  ELSE IF item.quantity < 0 THEN "Item quantity cannot be negative"
  ELSE "none"

validateTakeInventory(takeInventory) ==
  IF Len(takeInventory.items) = 0 THEN "Items array cannot be empty"
  ELSE FirstError([k \in DOMAIN takeInventory.items |->
                     validateTakeInventoryItem(takeInventory.items[k])])

\* The updates addTakeInventoryDoc puts in its batch.
takeInventoryUpdates(items) ==
  [k \in DOMAIN items |->
     [id |-> items[k].id, currentQuantity |-> items[k].quantity,
      lastUpdated |-> now]]

\* The history record addTakeInventoryDoc adds for an item.
takeInventoryRecord(item) ==
  [date |-> now, amount |-> item.quantity, type |-> "tookInventory"]

CallTakeInventory(p) ==
  \E r \in TakePayloads :
    Call(p, "takeInventory", [NoArg EXCEPT !.items = r],
         "ti_addInventoryHistoryDoc")

\* addTakeInventoryDoc, up to and including one awaited addInventoryHistoryDoc
\* of its loop: the first time round it starts with validateTakeInventory.
TakeInventoryAddHistory(p) ==
  /\ pc[p] = "ti_addInventoryHistoryDoc"
  /\ LET items == arg[p].items
         k == loc[p].k + 1
         e == IF k = 1 THEN validateTakeInventory([items |-> items]) ELSE "none"
     IN IF e # "none" THEN Return(p, e) /\ UNCHANGED store
        ELSE LET item == items[k]
                 h == validateInventoryItemHistory(item.id,
                                                   takeInventoryRecord(item))
             IN IF h # "none" THEN Return(p, h) /\ UNCHANGED store
                ELSE \/ /\ history' = [history EXCEPT ![item.id] =
                                         Append(@, takeInventoryRecord(item))]
                        /\ UNCHANGED <<orders, inventory, emails>>
                        /\ IF k = Len(items)
                           THEN /\ loc' = [loc EXCEPT ![p].k = 0]
                                /\ Goto(p, "ti_commit")
                           ELSE /\ loc' = [loc EXCEPT ![p].k = k]
                                /\ UNCHANGED <<pc, op, arg, err, calls>>
                     \/ Rejects(p)

\* batch.commit() of addTakeInventoryDoc: the quantity and lastUpdated of
\* every item of the payload, all or none (the takeInventory record of the
\* same batch is read by none of the functions here).
TakeInventoryCommit(p) ==
  /\ pc[p] = "ti_commit"
  /\ LET updates == takeInventoryUpdates(arg[p].items) IN
     IF \E k \in DOMAIN updates : updates[k].id \notin DOMAIN inventory
     THEN Return(p, "NOT_FOUND: no document to update") /\ UNCHANGED store
     ELSE \/ /\ inventory' = batchUpdated(inventory, updates)
             /\ UNCHANGED <<orders, history, emails, loc>>
             /\ Goto(p, "ti_updateInventoryDoc")
          \/ Rejects(p)

\* One awaited updateInventoryDoc of the handler's loop.
TakeInventoryUpdate(p) ==
  /\ pc[p] = "ti_updateInventoryDoc"
  /\ LET items == arg[p].items
         k == loc[p].k + 1
         item == [currentQuantity |-> items[k].quantity, lastUpdated |-> now]
         e == updateInventoryDocError(items[k].id, item)
     IN IF e # "none" THEN Return(p, e) /\ UNCHANGED store
        ELSE \/ /\ inventory' = updateInventoryDoc(items[k].id, item)
                /\ UNCHANGED <<orders, history, emails>>
                /\ IF k = Len(items)
                   THEN Return(p, "none")
                   ELSE /\ loc' = [loc EXCEPT ![p].k = k]
                        /\ UNCHANGED <<pc, op, arg, err, calls>>
             \/ Rejects(p)

\* ---------------------------------------------------- checkOutdatedItems
\* Time is counted in half days: a day is two units of the clock, and 0 is
\* the lastUpdated of a document without the field.
getFrequencyInDays(frequency) ==
  CASE frequency = "daily" -> 1
    [] frequency = "weekly" -> 7
    [] frequency = "monthly" -> 30
    [] OTHER -> 1

\* Math.floor((now - lastUpdate) / one day).
daysSinceUpdate(lastUpdated) == (now - lastUpdated) \div 2

\* The filter with a strict comparison.
isOutdated_Strict(item) ==
  IF item.lastUpdated = 0 \/ item.updateFrequency = "" THEN FALSE
  ELSE getFrequencyInDays(item.updateFrequency)
         < daysSinceUpdate(item.lastUpdated)

\* The predicate of items.filter.
isOutdated(item) ==
  IF item.lastUpdated = 0 \/ item.updateFrequency = "" THEN FALSE
  ELSE getFrequencyInDays(item.updateFrequency)
         <= daysSinceUpdate(item.lastUpdated)

outdatedItems(items) == {i \in DOMAIN items : isOutdated(items[i])}

\* The document createEmail adds: no orderId, no restaurantId, and a message
\* that lists the outdated items.
OutdatedItemsEmail(items) ==
  [orderId |-> "-", restaurantId |-> "-", state |-> "NONE", outdated |-> items]

CallCheckOutdatedItems(p) ==
  Call(p, "checkOutdatedItems", NoArg, "mon_getInventory")

\* The sweep that creates its email whatever the filter leaves.
CheckOutdatedItemsGetInventory_AlwaysEmail(p) ==
  /\ pc[p] = "mon_getInventory"
  /\ UNCHANGED store
  /\ loc' = [loc EXCEPT ![p].itemsById = inventory]
  /\ Goto(p, "mon_createEmail")

\* getInventory() and the filter: the invocation returns when nothing is
\* outdated.
CheckOutdatedItemsGetInventory(p) ==
  /\ pc[p] = "mon_getInventory"
  /\ UNCHANGED store
  /\ IF outdatedItems(inventory) = {}
     THEN Return(p, "none")
     ELSE /\ loc' = [loc EXCEPT ![p].itemsById = inventory]
          /\ Goto(p, "mon_createEmail")

\* The sweep that also stamps the items it has listed.
CheckOutdatedItemsCreateEmail_Stamping(p) ==
  /\ pc[p] = "mon_createEmail"
  /\ emails' = Append(emails,
                      OutdatedItemsEmail(outdatedItems(loc[p].itemsById)))
  /\ inventory' = [i \in DOMAIN inventory |->
                     IF i \in outdatedItems(loc[p].itemsById)
                     THEN [inventory[i] EXCEPT !.lastUpdated = now]
                     ELSE inventory[i]]
  /\ UNCHANGED <<orders, history>>
  /\ Return(p, "none")

\* emailService.createEmail for the outdated items.
CheckOutdatedItemsCreateEmail(p) ==
  /\ pc[p] = "mon_createEmail"
  /\ \/ /\ emails' = Append(emails,
                            OutdatedItemsEmail(outdatedItems(loc[p].itemsById)))
        /\ UNCHANGED <<orders, inventory, history>>
        /\ Return(p, "none")
     \/ Rejects(p)

\* ---------------------------------------------------------- specification
Step(p) ==
  \/ CallCreateOrder(p)
  \/ CallUpdateOrderStatus(p)
  \/ CallCancelOrder(p)
  \/ CallSendOrder(p)
  \/ CallRecordOrderDelivery(p)
  \/ CallOnEmailDeliveryStatusUpdate(p)
  \/ CreateOrder(p)
  \/ UpdateOrderStatus(p)
  \/ CancelOrderGet(p)
  \/ CancelOrderUpdate(p)
  \/ SendOrderGetOrder(p)
  \/ SendOrderGetSupplier(p)
  \/ SendOrderCreateOrderEmail(p)
  \/ SendOrderAddEmailDoc(p)
  \/ SendOrderUpdateStatus(p)
  \/ RecordOrderDeliveryGetOrder(p)
  \/ RecordOrderDeliveryGetInventory(p)
  \/ RecordOrderDeliveryUpdateOrder(p)
  \/ RecordOrderDeliveryBatchUpdate(p)
  \/ RecordOrderDeliveryBatchHistory(p)
  \/ OnEmailDeliveryStatusUpdateGetEmail(p)
  \/ OnEmailDeliveryStatusUpdateUpdateStatus(p)

\* One invocation at a time.
Next ==
  \/ Step("p1")
  \/ ProviderDelivery
  \/ OrderEmailWritten

Spec == Init /\ [][Next]_vars

\* ------------------------------------------------------------ inventory
\* The functions that write inventory quantities, one invocation at a time.
StepInventory(p) ==
  \/ CallAddInventoryItem(p)
  \/ CallUpdateInventoryItem(p)
  \/ CallTakeInventory(p)
  \/ CallRecordOrderDelivery(p)
  \/ AddInventoryItem(p)
  \/ UpdateInventoryItem(p)
  \/ TakeInventoryAddHistory(p)
  \/ TakeInventoryCommit(p)
  \/ TakeInventoryUpdate(p)
  \/ RecordOrderDeliveryGetOrder(p)
  \/ RecordOrderDeliveryGetInventory(p)
  \/ RecordOrderDeliveryUpdateOrder(p)
  \/ RecordOrderDeliveryBatchUpdate(p)
  \/ RecordOrderDeliveryBatchHistory(p)

NextInventory == StepInventory("p1")

SpecInventory == Init /\ [][NextInventory]_vars

\* ----------------------------------------------------------- monitoring
\* The lastUpdated of an inventory document when the sweeps start, the clock
\* being at 1: unset, just updated, and so long ago that the first or the
\* second sweep finds a day, a week or a month elapsed to the half day; or a
\* time still to come.
LastUpdatedValues == {0, 1, -1, -11, -12, -57, -58, 5}

InitMonitoring ==
  /\ calls = 0
  /\ orders = [o \in {"o1"} |-> NewOrderDoc("sEmail", <<LineItem("A", 0)>>)]
  /\ inventory \in
       [ItemIds -> [currentQuantity : {1}, lastUpdated : LastUpdatedValues,
                    updateFrequency : UpdateFrequencies \cup {""}]]
  /\ history = [i \in CallItemIds |-> <<>>]
  /\ emails = <<>>
  /\ pc = [p \in Procs |-> "idle"]
  /\ op = [p \in Procs |-> "none"]
  /\ arg = [p \in Procs |-> NoArg]
  /\ loc = [p \in Procs |-> NoLoc]
  /\ err = [p \in Procs |-> "none"]

\* The scheduled sweep, one run at a time.
StepMonitoring(p) ==
  \/ CallCheckOutdatedItems(p)
  \/ CheckOutdatedItemsGetInventory(p)
  \/ CheckOutdatedItemsCreateEmail(p)

NextMonitoring == StepMonitoring("p1")

SpecMonitoring == InitMonitoring /\ [][NextMonitoring]_vars

\* ------------------------------------------------- trigger redelivery
\* The order o1 has been sent, and its OrderEmail document is in the emails
\* collection, handed to the provider.
InitRedelivery ==
  /\ calls = 0
  /\ orders = [o \in {"o1"} |->
                 [NewOrderDoc("sEmail", <<LineItem("A", 0)>>)
                    EXCEPT !.status = "sent", !.lastUpdated = now]]
  /\ inventory = [i \in ItemIds |->
                    [currentQuantity |-> 1, lastUpdated |-> 1,
                     updateFrequency |-> "daily"]]
  /\ history = [i \in CallItemIds |-> <<>>]
  /\ emails = <<[orderId |-> "o1", restaurantId |-> RestaurantId,
                 state |-> "PENDING"]>>
  /\ pc = [p \in Procs |-> "idle"]
  /\ op = [p \in Procs |-> "none"]
  /\ arg = [p \in Procs |-> NoArg]
  /\ loc = [p \in Procs |-> NoLoc]
  /\ err = [p \in Procs |-> "none"]

\* One run of the trigger: the platform delivers a document-written event
\* at least once, and the runs for one document may overlap.
Redelivery(p) ==
  \/ CallOnEmailDeliveryStatusUpdate(p)
  \/ OnEmailDeliveryStatusUpdateGetEmail(p)
  \/ OnEmailDeliveryStatusUpdateUpdateStatus(p)

NextRedelivery ==
  \/ Redelivery("p1")
  \/ Redelivery("p2")
  \/ ProviderDelivery
  \/ OrderEmailWritten

SpecRedelivery == InitRedelivery /\ [][NextRedelivery]_vars


\* ------------------------------------------------- after a delivery
\* The order o1 has been delivered by recordOrderDelivery with two units of
\* A: the quantity is added, the history record is written, and the order's
\* OrderEmail document was marked SUCCESS by the provider.
InitDelivered ==
  /\ calls = 0
  /\ orders = [o \in {"o1"} |->
                 [NewOrderDoc("sEmail", <<LineItem("A", 2)>>)
                    EXCEPT !.status = "delivered", !.lastUpdated = now]]
  /\ inventory = [i \in ItemIds |->
                    [currentQuantity |-> IF i = "A" THEN 3 ELSE 1,
                     lastUpdated |-> 1, updateFrequency |-> "daily"]]
  /\ history = [i \in CallItemIds |->
                  IF i = "A"
                  THEN <<[date |-> now, amount |-> 2, type |-> "receivedOrder"]>>
                  ELSE <<>>]
  /\ emails = <<[orderId |-> "o1", restaurantId |-> RestaurantId,
                 state |-> "SUCCESS"]>>
  /\ pc = [p \in Procs |-> "idle"]
  /\ op = [p \in Procs |-> "none"]
  /\ arg = [p \in Procs |-> NoArg]
  /\ loc = [p \in Procs |-> NoLoc]
  /\ err = [p \in Procs |-> "none"]

\* The functions that may run on an order after its delivery.
StepDelivered(p) ==
  \/ CallUpdateOrderStatus(p)
  \/ CallRecordOrderDelivery(p)
  \/ CallOnEmailDeliveryStatusUpdate(p)
  \/ UpdateOrderStatus(p)
  \/ RecordOrderDeliveryGetOrder(p)
  \/ RecordOrderDeliveryGetInventory(p)
  \/ RecordOrderDeliveryUpdateOrder(p)
  \/ RecordOrderDeliveryBatchUpdate(p)
  \/ RecordOrderDeliveryBatchHistory(p)
  \/ OnEmailDeliveryStatusUpdateGetEmail(p)
  \/ OnEmailDeliveryStatusUpdateUpdateStatus(p)

NextDelivered == StepDelivered("p1")

SpecDelivered == InitDelivered /\ [][NextDelivered]_vars


\* ------------------------------------------------- concurrent sendOrder
\* The steps of a sendOrder invocation.
ConcurrentSend(p) ==
  \/ CallSendOrder(p)
  \/ SendOrderGetOrder(p)
  \/ SendOrderGetSupplier(p)
  \/ SendOrderCreateOrderEmail(p)
  \/ SendOrderAddEmailDoc(p)
  \/ SendOrderUpdateStatus(p)

\* Two invocations of sendOrder run at once, their awaited operations
\* interleaved in any order.
NextConcurrentSend ==
  \/ ConcurrentSend("p1")
  \/ ConcurrentSend("p2")

SpecConcurrentSend == Init /\ [][NextConcurrentSend]_vars


\* ------------------------------------------------- from sent to confirmed
\* sendOrder is called by p1; the provider writes delivery records; the
\* platform runs the trigger as p2 on the documents of the emails
\* collection, those of other writers included. No other function is called.
SendConfirm ==
  \/ CallSendOrder("p1")
  \/ SendOrderGetOrder("p1")
  \/ SendOrderGetSupplier("p1")
  \/ SendOrderCreateOrderEmail("p1")
  \/ SendOrderAddEmailDoc("p1")
  \/ SendOrderUpdateStatus("p1")
  \/ CallOnEmailDeliveryStatusUpdate("p2")
  \/ OnEmailDeliveryStatusUpdateGetEmail("p2")
  \/ OnEmailDeliveryStatusUpdateUpdateStatus("p2")

NextSendConfirm ==
  \/ SendConfirm
  \/ ProviderDelivery
  \/ OrderEmailWritten

\* A run of the trigger that has started is carried through by the platform.
FairSendConfirm ==
  /\ WF_vars(OnEmailDeliveryStatusUpdateGetEmail("p2"))
  /\ WF_vars(OnEmailDeliveryStatusUpdateUpdateStatus("p2"))

SpecSendConfirm == Init /\ [][NextSendConfirm]_vars /\ FairSendConfirm


\* ------------------------------------------- concurrent recordOrderDelivery
\* Two orders of one unit of A each are open: o1 and o2.
InitTwoOrders ==
  /\ calls = 0
  /\ orders = [o \in OrderIds |-> NewOrderDoc("sEmail", <<LineItem("A", 0)>>)]
  /\ inventory = [i \in ItemIds |->
                    [currentQuantity |-> 1, lastUpdated |-> 1,
                     updateFrequency |-> "daily"]]
  /\ history = [i \in CallItemIds |-> <<>>]
  /\ emails = <<>>
  /\ pc = [p \in Procs |-> "idle"]
  /\ op = [p \in Procs |-> "none"]
  /\ arg = [p \in Procs |-> NoArg]
  /\ loc = [p \in Procs |-> NoLoc]
  /\ err = [p \in Procs |-> "none"]

\* The deliveries recorded at once: one or two units of A, alone or with
\* two units of B.
ConcurrentPayloads ==
  { <<ReceivedItem("A", 1)>>,
    <<ReceivedItem("A", 2)>>,
    <<ReceivedItem("A", 1), ReceivedItem("B", 2)>> }

CallConcurrentDelivery(p) ==
  \E o \in OrderIds, r \in ConcurrentPayloads :
    Call(p, "recordOrderDelivery",
         [NoArg EXCEPT !.orderId = o, !.items = r], "rod_getOrder")

\* The steps of a recordOrderDelivery invocation.
ConcurrentDelivery(p) ==
  \/ CallConcurrentDelivery(p)
  \/ RecordOrderDeliveryGetOrder(p)
  \/ RecordOrderDeliveryGetInventory(p)
  \/ RecordOrderDeliveryUpdateOrder(p)
  \/ RecordOrderDeliveryBatchUpdate(p)
  \/ RecordOrderDeliveryBatchHistory(p)

\* Two invocations of recordOrderDelivery run at once, their awaited
\* operations interleaved in any order.
NextConcurrentDelivery ==
  \/ ConcurrentDelivery("p1")
  \/ ConcurrentDelivery("p2")

SpecConcurrentDelivery == InitTwoOrders /\ [][NextConcurrentDelivery]_vars


\* ------------------------------------------------------------- properties
StatusOf(o) == orders[o].status

\* C1: once an order's status is delivered or cancelled, no step changes it.
C1_TerminalStatusesNeverChange ==
  [][\A o \in DOMAIN orders :
       StatusOf(o) \in {"delivered", "cancelled"}
         => orders'[o].status = StatusOf(o)]_vars

\* C2: every status change of an order moves forward along
\* pending < sent < confirmed < delivered, or goes to cancelled from a status
\* that is neither delivered nor cancelled.
C2_StatusIsMonotonic ==
  [][LET StatusRank(s) ==
           CASE s = "pending" -> 1 [] s = "sent" -> 2 [] s = "confirmed" -> 3
             [] s = "delivered" -> 4 [] OTHER -> 0
         MonotonicChange(from, to) ==
           \/ from = to
           \/ /\ to = "cancelled"
              /\ from \notin {"delivered", "cancelled"}
           \/ /\ StatusRank(from) > 0
              /\ StatusRank(from) < StatusRank(to)
     IN \A o \in DOMAIN orders :
          MonotonicChange(StatusOf(o), orders'[o].status)]_vars

\* C3: recordOrderDelivery of an order that is delivered throws "Order
\* already delivered" at its first read and writes nothing: orders,
\* inventory quantities and lastUpdated, history and notifications stay.
C3_DeliveredOrderIsNotDeliveredAgain ==
  [][\A p \in Procs :
       /\ pc[p] = "rod_getOrder"
       /\ pc'[p] # pc[p]
       /\ arg[p].orderId \in DOMAIN orders
       /\ StatusOf(arg[p].orderId) = "delivered"
       => /\ pc'[p] = "idle"
          /\ err'[p] = "Order already delivered"
          /\ UNCHANGED store]_vars

\* recordOrderDelivery has just thrown "Order already delivered" for an
\* order that an earlier delivery marked delivered.
C3_Witness ==
  /\ pc["p1"] = "idle"
  /\ op["p1"] = "recordOrderDelivery"
  /\ err["p1"] = "Order already delivered"
  /\ \E o \in DOMAIN orders :
       /\ StatusOf(o) = "delivered"
       /\ \E k \in DOMAIN orders[o].items : orders[o].items[k].receivedQuantity > 0

\* C4: updateOrderStatus with status delivered throws and writes nothing,
\* whatever the order's status; and every step that makes an order delivered
\* is the order write of a recordOrderDelivery for that order.
C4_OnlyRecordOrderDeliveryDelivers ==
  [][/\ \A p \in Procs :
          /\ pc[p] = "uos_updateStatus"
          /\ pc'[p] # pc[p]
          /\ arg[p].status = "delivered"
          => /\ err'[p] = "Order status can not be updated to delivered"
             /\ UNCHANGED store
     /\ \A o \in DOMAIN orders' :
          /\ o \in DOMAIN orders => StatusOf(o) # "delivered"
          /\ orders'[o].status = "delivered"
          => \E p \in Procs :
               /\ op[p] = "recordOrderDelivery"
               /\ pc[p] = "rod_updateOrder"
               /\ pc'[p] # pc[p]
               /\ arg[p].orderId = o]_vars

\* updateOrderStatus(o, delivered) has just been refused for an order that a
\* recordOrderDelivery had delivered.
C4_Witness ==
  /\ pc["p1"] = "idle"
  /\ op["p1"] = "updateOrderStatus"
  /\ err["p1"] = "Order status can not be updated to delivered"
  /\ \E o \in DOMAIN orders : StatusOf(o) = "delivered"

\* The entries of a payload that name item i.
EntriesFor(receivedItems, i) ==
  {k \in DOMAIN receivedItems : receivedItems[k].id = i}

\* C5: no step of a recordOrderDelivery lowers an inventory item's
\* currentQuantity, and its quantity batch leaves every item that the payload
\* names once at its quantity before plus the amount received.
C5_DeliveryAddsReceivedQuantity ==
  [][\A p \in Procs :
       op[p] = "recordOrderDelivery" /\ pc'[p] # pc[p]
       => /\ \A i \in DOMAIN inventory :
               inventory'[i].currentQuantity >= inventory[i].currentQuantity
          /\ inventory' # inventory
             => \A i \in DOMAIN inventory :
                  \A k \in EntriesFor(arg[p].items, i) :
                    Cardinality(EntriesFor(arg[p].items, i)) = 1
                    => inventory'[i].currentQuantity =
                         inventory[i].currentQuantity + arg[p].items[k].quantity]_vars

\* C6: the order write of recordOrderDelivery sets status delivered and, for
\* every line item, receivedQuantity to the quantity of a payload entry with
\* the item's id, or to 0 when the payload has none; the other fields of the
\* line items, the other fields of the order and the other orders stay; no
\* other step of recordOrderDelivery writes an order.
C6_OrderWriteSetsReceivedQuantities ==
  [][\A p \in Procs :
       op[p] = "recordOrderDelivery" /\ pc'[p] # pc[p]
       => IF pc[p] = "rod_updateOrder" /\ pc'[p] # "idle"
          THEN LET o == arg[p].orderId
                   r == arg[p].items
               IN /\ orders'[o].status = "delivered"
                  /\ DOMAIN orders'[o].items = DOMAIN orders[o].items
                  /\ \A k \in DOMAIN orders[o].items :
                       LET old == orders[o].items[k]
                           new == orders'[o].items[k]
                       IN /\ [new EXCEPT !.receivedQuantity = 0]
                               = [old EXCEPT !.receivedQuantity = 0]
                          /\ IF EntriesFor(r, old.id) = {}
                             THEN new.receivedQuantity = 0
                             ELSE \E j \in EntriesFor(r, old.id) :
                                    new.receivedQuantity = r[j].quantity
                  /\ orders' = [orders EXCEPT ![o].status = "delivered",
                                              ![o].items = orders'[o].items]
          ELSE orders' = orders]_vars

\* A recordOrderDelivery has returned for an order of items A and B whose
\* payload had an entry for A alone.
C6_Witness ==
  /\ pc["p1"] = "idle"
  /\ op["p1"] = "recordOrderDelivery"
  /\ err["p1"] = "none"
  /\ \E o \in DOMAIN orders :
       /\ StatusOf(o) = "delivered"
       /\ Len(orders[o].items) = 2
       /\ orders[o].items[1].receivedQuantity = 2
       /\ orders[o].items[2].receivedQuantity = 0

\* The records of a list with amount q.
WithAmount(records, q) == {k \in DOMAIN records : records[k].amount = q}

\* C7: the history batch of recordOrderDelivery appends to every item one
\* record per payload entry that names it, each of type receivedOrder, dated
\* now and with the entry's quantity as amount, and leaves the records that
\* were there; no other step of recordOrderDelivery writes history.
C7_OneHistoryRecordPerReceivedItem ==
  [][\A p \in Procs :
       op[p] = "recordOrderDelivery" /\ pc'[p] # pc[p]
       => IF /\ pc[p] = "rod_batchAddInventoryHistoryDocs"
             /\ err'[p] = "none"
          THEN \A i \in DOMAIN history :
                 LET r == arg[p].items
                     added == SubSeq(history'[i], Len(history[i]) + 1,
                                     Len(history'[i]))
                 IN /\ SubSeq(history'[i], 1, Len(history[i])) = history[i]
                    /\ Len(added) = Cardinality(EntriesFor(r, i))
                    /\ \A k \in DOMAIN added :
                         /\ added[k].type = "receivedOrder"
                         /\ added[k].date = now
                    /\ \A q \in {r[k].quantity : k \in DOMAIN r} :
                         Cardinality(WithAmount(added, q)) =
                           Cardinality({k \in EntriesFor(r, i) : r[k].quantity = q})
          ELSE history' = history]_vars

\* A recordOrderDelivery has returned and item A has the record of a
\* received amount of 2.
C7_Witness ==
  /\ pc["p1"] = "idle"
  /\ op["p1"] = "recordOrderDelivery"
  /\ err["p1"] = "none"
  /\ \E k \in DOMAIN history["A"] :
       /\ history["A"][k].amount = 2
       /\ history["A"][k].type = "receivedOrder"

\* C8: sendOrder of an order whose status is not pending throws "Only
\* pending orders can be sent" at its first read and writes nothing: no
\* notification document is added and the status stays.
C8_OnlyPendingOrdersAreSent ==
  [][\A p \in Procs :
       /\ pc[p] = "so_getOrder"
       /\ pc'[p] # pc[p]
       /\ arg[p].orderId \in DOMAIN orders
       /\ StatusOf(arg[p].orderId) # "pending"
       => /\ pc'[p] = "idle"
          /\ err'[p] = "Only pending orders can be sent"
          /\ UNCHANGED store]_vars

\* sendOrder has just been refused for an order that is sent.
C8_Witness ==
  /\ pc["p1"] = "idle"
  /\ op["p1"] = "sendOrder"
  /\ err["p1"] = "Only pending orders can be sent"
  /\ \E o \in DOMAIN orders : StatusOf(o) = "sent"

\* The supplier document has no contact method, a phone one, or an email one
\* without addresses.
UnsupportedContact(s) ==
  /\ s \in DOMAIN suppliers
  /\ suppliers[s].type # "email" \/ suppliers[s].emails = 0

\* C9: a sendOrder that has read a pending order whose supplier has no
\* usable email contact writes nothing and ends throwing one of the two
\* contact-method errors: it never gets to add a notification document or to
\* write the status.
C9_UnsupportedContactMethodSendsNothing ==
  [][\A p \in Procs :
       /\ op[p] = "sendOrder"
       /\ pc[p] # "so_getOrder"
       /\ pc'[p] # pc[p]
       /\ UnsupportedContact(loc[p].order.supplierId)
       => /\ UNCHANGED store
          /\ StatusOf(arg[p].orderId) = "pending"
          /\ \/ pc'[p] = "idle" /\ err'[p] \in {"Invalid supplier contact method",
                                          "Supplier does not have email contact method"}
             \/ pc[p] = "so_getSupplier" /\ pc'[p] = "so_createOrderEmail"]_vars

\* sendOrder has just been refused for a pending order whose supplier has an
\* email contact method without addresses.
C9_Witness ==
  /\ pc["p1"] = "idle"
  /\ op["p1"] = "sendOrder"
  /\ err["p1"] = "Supplier does not have email contact method"
  /\ emails = <<>>
  /\ \E o \in DOMAIN orders :
       /\ StatusOf(o) = "pending"
       /\ orders[o].supplierId = "sEmailEmpty"

\* C10: sendOrder writes an order only in its last step, which sets the
\* status to sent and finds a notification document for the order already
\* there; when adding the document fails the invocation ends with nothing
\* written, the order still pending.
C10_NotificationBeforeSent ==
  [][\A p \in Procs :
       op[p] = "sendOrder" /\ pc'[p] # pc[p]
       => /\ orders' # orders
             => /\ pc[p] = "so_updateStatus"
                /\ orders' = [orders EXCEPT
                                ![arg[p].orderId].status = "sent",
                                ![arg[p].orderId].lastUpdated = now]
                /\ \E e \in DOMAIN emails : emails[e].orderId = arg[p].orderId
          /\ pc[p] = "so_addEmailDoc" /\ emails' = emails
             => /\ pc'[p] = "idle"
                /\ err'[p] = "store failure"
                /\ UNCHANGED store
                /\ StatusOf(arg[p].orderId) = "pending"]_vars

\* sendOrder has returned: the order is sent and its notification exists.
C10_Witness ==
  /\ pc["p1"] = "idle"
  /\ op["p1"] = "sendOrder"
  /\ err["p1"] = "none"
  /\ \E o \in DOMAIN orders :
       /\ StatusOf(o) = "sent"
       /\ \E e \in DOMAIN emails : emails[e].orderId = o

\* C11: cancelOrder of an order that is pending, sent or confirmed goes on
\* to its write, which sets status cancelled and cancelledAt to now and
\* nothing else (or is rejected by the store, writing nothing); cancelOrder
\* of a delivered, cancelled or missing order throws at its read and writes
\* nothing.
C11_CancelOrderContract ==
  [][\A p \in Procs :
       pc[p] \in {"cn_get", "cn_update"} /\ pc'[p] # pc[p]
       => LET o == arg[p].orderId IN
          IF pc[p] = "cn_get"
          THEN /\ UNCHANGED store
               /\ IF o \in DOMAIN orders
                     /\ StatusOf(o) \in {"pending", "sent", "confirmed"}
                  THEN pc'[p] = "cn_update"
                  ELSE /\ pc'[p] = "idle"
                       /\ err'[p] \in
                            {"Order not found",
                             "Cannot cancel order that is alreadydelivered or cancelled"}
          ELSE /\ StatusOf(o) \in {"pending", "sent", "confirmed"}
               /\ \/ /\ err'[p] = "none"
                     /\ orders' = [orders EXCEPT ![o].status = "cancelled",
                                                 ![o].cancelledAt = now]
                     /\ UNCHANGED <<inventory, history, emails>>
                  \/ /\ err'[p] = "store failure"
                     /\ UNCHANGED store]_vars

\* cancelOrder has cancelled an order that was sent.
C11_Witness ==
  /\ pc["p1"] = "idle"
  /\ op["p1"] = "cancelOrder"
  /\ err["p1"] = "none"
  /\ \E o \in DOMAIN orders :
       /\ StatusOf(o) = "cancelled"
       /\ orders[o].cancelledAt = now
       /\ orders[o].lastUpdated > 0

\* C12: the trigger, run for a notification document whose delivery state is
\* SUCCESS and that carries an orderId, goes on to write status confirmed to
\* that order; run for a document in another delivery state or without an
\* orderId it returns with no order changed.
C12_TriggerConfirmsOnSuccess ==
  [][\A p \in Procs :
       LET email == emails[arg[p].emailId] IN
       /\ pc[p] = "tr_getEmail" /\ pc'[p] # pc[p]
          => IF email.state = "SUCCESS" /\ email.orderId # "-"
             THEN pc'[p] = "tr_updateStatus"
             ELSE pc'[p] = "idle" /\ orders' = orders
       /\ pc[p] = "tr_updateStatus" /\ pc'[p] # pc[p]
          => \/ err'[p] # "none" /\ orders' = orders
             \/ orders'[email.orderId].status = "confirmed"]_vars

\* C13: every step that makes an order confirmed is the status write of the
\* confirmation trigger; no step of a callable function does it.
C13_OnlyTheTriggerConfirms ==
  [][\A o \in DOMAIN orders :
       StatusOf(o) # "confirmed" /\ orders'[o].status = "confirmed"
       => \E p \in Procs :
            /\ op[p] = "onEmailDeliveryStatusUpdate"
            /\ pc[p] = "tr_updateStatus"
            /\ pc'[p] # pc[p]]_vars

\* C14: with nothing but the trigger and the provider acting, an order that
\* a run of the trigger has confirmed stays confirmed through every further
\* run for the same document: a repeated status write changes nothing of the
\* order but lastUpdated.
C14_ConfirmationIsIdempotent ==
  [][/\ \A o \in DOMAIN orders :
          StatusOf(o) = "confirmed" => orders'[o].status = "confirmed"
     /\ \A p \in Procs :
          LET o == emails[arg[p].emailId].orderId IN
          /\ pc[p] = "tr_updateStatus"
          /\ pc'[p] # pc[p]
          /\ o \in DOMAIN orders
          /\ StatusOf(o) = "confirmed"
          => orders' = [orders EXCEPT ![o].lastUpdated = orders'[o].lastUpdated]]_vars

\* Two runs of the trigger for the one document have returned and o1 is
\* confirmed, its status last written at the current time.
C14_Witness ==
  /\ calls = 2
  /\ \A p \in Procs :
       /\ pc[p] = "idle"
       /\ op[p] = "onEmailDeliveryStatusUpdate"
       /\ err[p] = "none"
  /\ Len(emails) = 1
  /\ StatusOf("o1") = "confirmed"
  /\ orders["o1"].lastUpdated = now

\* C15: the currentQuantity of every inventory item is at least 0 in every
\* state the inventory functions reach, whatever quantities their payloads
\* carry.
C15_QuantityNeverNegative ==
  \A i \in DOMAIN inventory : inventory[i].currentQuantity >= 0

\* recordOrderDelivery has been refused a received quantity of -1 for item B,
\* whose quantity an earlier call had brought to 0.
C15_Witness ==
  /\ pc["p1"] = "idle"
  /\ op["p1"] = "recordOrderDelivery"
  /\ err["p1"] = "Current quantity cannot be negative"
  /\ inventory["B"].currentQuantity = 0

\* C16: every step that changes an inventory item's currentQuantity leaves
\* the item's lastUpdated at the time of the step.
C16_QuantityChangeRefreshesLastUpdated ==
  [][\A i \in DOMAIN inventory :
       inventory'[i].currentQuantity # inventory[i].currentQuantity
       => inventory'[i].lastUpdated = now]_vars

\* C17: when an invocation of takeInventory or recordOrderDelivery has ended,
\* with or without an error, an item has a history record of that invocation
\* if and only if that invocation set the item's quantity.
C17_HistoryIffQuantitySet ==
  LET \* Both writes are dated now, the time of one invocation only.
      NewRecords(i) == {k \in DOMAIN history[i] : history[i][k].date = now}
      QuantitySet(i) == i \in DOMAIN inventory /\ inventory[i].lastUpdated = now
  IN \A p \in Procs :
       pc[p] = "idle" /\ op[p] \in {"takeInventory", "recordOrderDelivery"}
       => \A i \in DOMAIN history : NewRecords(i) # {} <=> QuantitySet(i)

\* C18: the items a sweep lists in its notification are exactly those with
\* lastUpdated and updateFrequency set and floor(elapsed days) >= cadence
\* (daily 1, weekly 7, monthly 30), and the sweep goes on to notify exactly
\* when there is such an item.
C18_FlaggedIffCadenceElapsed ==
  [][LET \* A day is two units of the clock.
         MustFlag ==
           {i \in DOMAIN inventory :
              /\ inventory[i].lastUpdated # 0
              /\ inventory[i].updateFrequency \in UpdateFrequencies
              /\ LET f == inventory[i].updateFrequency
                     cadence == IF f = "daily" THEN 1
                                ELSE IF f = "weekly" THEN 7 ELSE 30
                 IN now - inventory[i].lastUpdated >= 2 * cadence}
     IN \A p \in Procs :
          /\ pc[p] = "mon_getInventory" /\ pc'[p] # pc[p]
             => (pc'[p] = "mon_createEmail" <=> MustFlag # {})
          /\ pc[p] = "mon_createEmail" /\ pc'[p] # pc[p] /\ err'[p] = "none"
             => emails'[Len(emails')].outdated = MustFlag]_vars

\* A sweep has listed A alone: A and B are weekly items, A updated exactly
\* seven days before the sweep and B six and a half.
C18_Witness ==
  /\ calls = 1
  /\ pc["p1"] = "idle"
  /\ err["p1"] = "none"
  /\ inventory["A"].updateFrequency = "weekly"
  /\ inventory["B"].updateFrequency = "weekly"
  /\ now - inventory["A"].lastUpdated = 14
  /\ now - inventory["B"].lastUpdated = 13
  /\ Len(emails) = 1
  /\ emails[1].outdated = {"A"}

\* C19: a sweep adds no notification before its last step; it returns
\* without one exactly when no item is outdated, and otherwise its last step
\* adds one notification that lists every outdated item (or fails and adds
\* none) and ends the invocation.
C19_OneNotificationPerSweep ==
  [][\A p \in Procs :
       pc[p] \in {"mon_getInventory", "mon_createEmail"} /\ pc'[p] # pc[p]
       => IF pc[p] = "mon_getInventory"
          THEN /\ emails' = emails
               /\ pc'[p] = "idle" <=> outdatedItems(inventory) = {}
          ELSE /\ pc'[p] = "idle"
               /\ \/ err'[p] = "store failure" /\ emails' = emails
                  \/ /\ err'[p] = "none"
                     /\ Len(emails') = Len(emails) + 1
                     /\ SubSeq(emails', 1, Len(emails)) = emails
                     /\ emails'[Len(emails')].outdated
                          = outdatedItems(inventory)
                     /\ outdatedItems(inventory) # {}]_vars

\* Two sweeps have returned: the first found nothing outdated and sent
\* nothing, the second found A a day old and sent one notification.
C19_Witness ==
  /\ calls = 2
  /\ pc["p1"] = "idle"
  /\ op["p1"] = "checkOutdatedItems"
  /\ err["p1"] = "none"
  /\ inventory["A"].updateFrequency = "daily"
  /\ inventory["A"].lastUpdated = 1
  /\ Len(emails) = 1
  /\ emails[1].outdated = {"A"}

\* C20: no step of a sweep changes an order, an inventory item or a history
\* record, and the notifications that were there stay.
C20_SweepWritesNoStoredState ==
  [][\A p \in Procs :
       pc[p] \in {"mon_getInventory", "mon_createEmail"} /\ pc'[p] # pc[p]
       => /\ UNCHANGED <<orders, inventory, history>>
          /\ SubSeq(emails', 1, Len(emails)) = emails]_vars

\* Two sweeps in succession have each sent a notification for the same
\* outdated item.
C20_Witness ==
  /\ calls = 2
  /\ pc["p1"] = "idle"
  /\ op["p1"] = "checkOutdatedItems"
  /\ err["p1"] = "none"
  /\ Len(emails) = 2
  /\ emails[1].outdated = {"B"}
  /\ emails[2].outdated = {"B"}

\* C21: no step of a recordOrderDelivery whose payload names an item without
\* an inventory document writes an inventory item or a history record, and
\* the invocation ends with a TypeError where it builds the argument of the
\* quantity batch.
C21_UnknownItemWritesNoInventory ==
  [][\A p \in Procs :
       /\ pc[p] \in {"rod_getOrder", "rod_getAllInventoryDocs", "rod_updateOrder",
                     "rod_batchUpdateInventoryDocs",
                     "rod_batchAddInventoryHistoryDocs"}
       /\ pc'[p] # pc[p]
       /\ \E k \in DOMAIN arg[p].items : arg[p].items[k].id \notin DOMAIN inventory
       => /\ inventory' = inventory
          /\ history' = history
          /\ pc[p] # "rod_batchAddInventoryHistoryDocs"
          /\ pc[p] = "rod_batchUpdateInventoryDocs"
             => /\ pc'[p] = "idle"
                /\ err'[p] = "TypeError: cannot read properties of undefined"]_vars

\* recordOrderDelivery has thrown the TypeError for a payload of a known and
\* an unknown item: no quantity has changed and there is no history record.
C21_Witness ==
  /\ calls = 1
  /\ pc["p1"] = "idle"
  /\ op["p1"] = "recordOrderDelivery"
  /\ err["p1"] = "TypeError: cannot read properties of undefined"
  /\ NewItemId \notin DOMAIN inventory
  /\ orders["o1"].items[1].receivedQuantity = 2
  /\ \A i \in DOMAIN inventory :
       inventory[i].currentQuantity = 1 /\ inventory[i].lastUpdated = 1
  /\ \A i \in DOMAIN history : history[i] = <<>>

\* C22: while createOrder is the only function that has been called, so that
\* no order has been delivered, every line item of every order has
\* receivedQuantity 0.
C22_UndeliveredOrderHasNothingReceived ==
  calls = 1 /\ op["p1"] = "createOrder"
  => \A o \in DOMAIN orders :
       /\ orders[o].status # "delivered"
       /\ \A k \in DOMAIN orders[o].items : orders[o].items[k].receivedQuantity = 0

\* C23: the order o1 of SpecDelivered has been delivered once; from then on
\* no step overwrites the receivedQuantity of its line items, and no step of
\* a recordOrderDelivery for o1 writes an inventory quantity or a history
\* record, whatever updateOrderStatus calls and trigger runs come between.
C23_DeliveryAppliedAtMostOnce ==
  [][/\ orders'["o1"].items = orders["o1"].items
     /\ \A p \in Procs :
          /\ pc[p] \in {"rod_getOrder", "rod_getAllInventoryDocs",
                        "rod_updateOrder", "rod_batchUpdateInventoryDocs",
                        "rod_batchAddInventoryHistoryDocs"}
          /\ arg[p].orderId = "o1"
          => inventory' = inventory /\ history' = history]_vars

\* C24: when an order function has ended with a state-machine or validation
\* violation, the error its caller receives differs from the one the caller
\* receives for a store failure.
C24_ViolationsKeepTheirOwnError ==
  \A p \in Procs :
    /\ pc[p] = "idle"
    /\ op[p] \in {"createOrder", "updateOrderStatus", "cancelOrder",
                  "sendOrder", "recordOrderDelivery"}
    /\ err[p] \in {"Only pending orders can be sent", "Order already delivered",
                   "Order status can not be updated to delivered",
                   "Cannot cancel order that is alreadydelivered or cancelled",
                   "Invalid order status", "Order must contain at least one item",
                   "Supplier does not have email contact method",
                   "Invalid supplier contact method",
                   "Current quantity cannot be negative",
                   "Amount cannot be negative"}
    => /\ thrownToCaller(p) # errorHandler("store failure")
       /\ thrownToCaller(p) = err[p]

\* C25: a recordOrderDelivery that ends with an error at its quantity batch
\* or its history batch leaves the order as written, delivered, and writes
\* no quantity and no history record; a recordOrderDelivery for a delivered
\* order is refused with 'Order already delivered' and writes nothing; and
\* no step outside the two batches of a recordOrderDelivery adds a
\* receivedOrder history record.
C25_PartialDeliveryStays ==
  [][/\ \A p \in Procs :
          /\ pc[p] \in {"rod_batchUpdateInventoryDocs",
                        "rod_batchAddInventoryHistoryDocs"}
             /\ pc'[p] = "idle" /\ err'[p] # "none"
             => /\ orders' = orders
                /\ orders[arg[p].orderId].status = "delivered"
                /\ inventory' = inventory
                /\ history' = history
          /\ pc[p] = "rod_getOrder"
             /\ arg[p].orderId \in DOMAIN orders
             /\ orders[arg[p].orderId].status = "delivered"
             => /\ pc'[p] = "idle"
                /\ err'[p] = "Order already delivered"
                /\ UNCHANGED store
     /\ (\A p \in Procs : pc[p] # "rod_batchAddInventoryHistoryDocs")
        => \A i \in DOMAIN history :
             SelectSeq(history'[i], LAMBDA r : r.type = "receivedOrder")
               = SelectSeq(history[i], LAMBDA r : r.type = "receivedOrder")]_vars

\* The first recordOrderDelivery wrote the order delivered with two units of
\* A received and failed before its batches; the retry has been refused, and
\* the quantity of A and its history are as they were before the delivery.
C25_Witness ==
  /\ calls = 2
  /\ pc["p1"] = "idle"
  /\ op["p1"] = "recordOrderDelivery"
  /\ err["p1"] = "Order already delivered"
  /\ orders["o1"].status = "delivered"
  /\ orders["o1"].items[1].receivedQuantity = 2
  /\ inventory["A"].currentQuantity = 1
  /\ history["A"] = <<>>

C27_SendOrderIsNotGuarded ==
  [][\A p \in Procs :
       /\ pc[p] = "so_getOrder" /\ pc'[p] # pc[p]
          /\ arg[p].orderId \in DOMAIN orders
          /\ orders[arg[p].orderId].status = "pending"
          => pc'[p] = "so_getSupplier"
       /\ pc[p] = "so_addEmailDoc" /\ pc'[p] = "so_updateStatus"
          => /\ Len(emails') = Len(emails) + 1
             /\ emails'[Len(emails')].orderId = arg[p].orderId
       /\ pc[p] = "so_updateStatus" /\ pc'[p] # pc[p] /\ err'[p] = "none"
          => orders'[arg[p].orderId].status = "sent"]_vars

\* Both invocations of sendOrder for o1 have returned normally and each has
\* added its document: two notifications for one order.
C27_Witness ==
  /\ \A p \in Procs :
       pc[p] = "idle" /\ op[p] = "sendOrder" /\ err[p] = "none"
  /\ Len(emails) = 2
  /\ \A e \in DOMAIN emails : emails[e].orderId = "o1"
  /\ orders["o1"].status = "sent"

\* C28: when the trigger runs on a document that sendOrder added for o1 and
\* that the provider has marked SUCCESS, o1 being sent, then o1 eventually
\* becomes confirmed, unless the provider rewrites the delivery record or
\* the store rejects the trigger's write.
C28_SuccessEventuallyConfirms ==
  (/\ pc["p2"] = "tr_getEmail"
   /\ emails[arg["p2"].emailId].state = "SUCCESS"
   /\ emails[arg["p2"].emailId].orderId = "o1"
   /\ orders["o1"].status = "sent")
  ~> \/ orders["o1"].status = "confirmed"
     \/ err["p2"] = "store failure"
     \/ \E e \in DOMAIN emails : emails[e].state # "SUCCESS"
\* C29: when two recordOrderDelivery invocations, one for o1 and one for o2,
\* have both returned normally, the quantity of A is its initial quantity
\* plus the amounts of A received for o1 and for o2.
C29_NoDeliveryIsLost ==
  /\ calls = 2
  /\ \A p \in Procs :
       pc[p] = "idle" /\ op[p] = "recordOrderDelivery" /\ err[p] = "none"
  /\ \A o \in OrderIds : orders[o].status = "delivered"
  => inventory["A"].currentQuantity
       = 1 + orders["o1"].items[1].receivedQuantity
           + orders["o2"].items[1].receivedQuantity

\* C30: when a recordOrderDelivery ends with an error other than a store
\* failure (order not found, order already delivered, an item id without an
\* inventory document, a refused quantity or history record), the order has
\* the status and the items it had when the invocation read it.
C30_FailedDeliveryLeavesOrder ==
  [][\A p \in Procs :
       /\ pc[p] \in {"rod_getOrder", "rod_getAllInventoryDocs", "rod_updateOrder",
                     "rod_batchUpdateInventoryDocs",
                     "rod_batchAddInventoryHistoryDocs"}
       /\ pc'[p] = "idle"
       /\ err'[p] \notin {"none", "store failure"}
       => IF pc[p] = "rod_getOrder" THEN orders' = orders
          ELSE /\ orders'[arg[p].orderId].status = loc[p].order.status
               /\ orders'[arg[p].orderId].items = loc[p].order.items]_vars

\* C31: when a recordOrderDelivery, run on its own, completes with its
\* history batch, then for every inventory item the amounts of the history
\* records it added sum to the amount by which it raised the item's
\* currentQuantity over the quantity it read.
C31_HistorySumsToQuantityIncrease ==
  [][LET RECURSIVE SumAmounts(_)
         SumAmounts(records) ==
           IF records = <<>> THEN 0
           ELSE Head(records).amount + SumAmounts(Tail(records))
     IN \A p \in Procs :
          /\ pc[p] = "rod_batchAddInventoryHistoryDocs"
          /\ pc'[p] = "idle"
          /\ err'[p] = "none"
          => \A i \in DOMAIN inventory :
               SumAmounts(SubSeq(history'[i], Len(history[i]) + 1,
                                 Len(history'[i])))
                 = inventory'[i].currentQuantity
                     - loc[p].itemsById[i].currentQuantity]_vars

\* C32: a step of a recordOrderDelivery, and so a successful invocation,
\* changes nothing but the status of its order and the receivedQuantity of
\* that order's line items, the currentQuantity and lastUpdated of the
\* inventory items named in receivedItems, and the history of those items,
\* to which it only appends: the other orders, the other inventory items,
\* the existing history records and the notification documents stay.
C32_DeliveryFrame ==
  [][\A p \in Procs :
       /\ pc[p] \in {"rod_getOrder", "rod_getAllInventoryDocs", "rod_updateOrder",
                     "rod_batchUpdateInventoryDocs",
                     "rod_batchAddInventoryHistoryDocs"}
       /\ pc'[p] # pc[p]
       => LET id == arg[p].orderId
              named == {arg[p].items[k].id : k \in DOMAIN arg[p].items}
          IN /\ emails' = emails
             /\ DOMAIN orders' = DOMAIN orders
             /\ \A o \in DOMAIN orders :
                  IF o # id THEN orders'[o] = orders[o]
                  ELSE /\ [orders'[o] EXCEPT !.status = orders[o].status,
                                             !.items = orders[o].items]
                            = orders[o]
                       /\ Len(orders'[o].items) = Len(orders[o].items)
                       /\ \A k \in DOMAIN orders[o].items :
                            [orders'[o].items[k] EXCEPT !.receivedQuantity =
                               orders[o].items[k].receivedQuantity]
                              = orders[o].items[k]
             /\ DOMAIN inventory' = DOMAIN inventory
             /\ \A i \in DOMAIN inventory :
                  IF i \notin named THEN inventory'[i] = inventory[i]
                  ELSE [inventory'[i] EXCEPT
                          !.currentQuantity = inventory[i].currentQuantity,
                          !.lastUpdated = inventory[i].lastUpdated]
                         = inventory[i]
             /\ \A i \in DOMAIN history :
                  /\ Len(history'[i]) >= Len(history[i])
                  /\ SubSeq(history'[i], 1, Len(history[i])) = history[i]
                  /\ i \notin named => history'[i] = history[i]]_vars

\* recordOrderDelivery of two units of A for o1 has returned normally while
\* a second order or a notification document exists: o1 is delivered, A is
\* raised and has its record, and B is as it was.
C32_Witness ==
  /\ pc["p1"] = "idle"
  /\ op["p1"] = "recordOrderDelivery"
  /\ err["p1"] = "none"
  /\ orders["o1"].status = "delivered"
  /\ orders["o1"].items[1].receivedQuantity = 2
  /\ inventory["A"].currentQuantity = 3
  /\ inventory["B"].currentQuantity = 1 /\ inventory["B"].lastUpdated = 1
  /\ Len(history["A"]) = 1 /\ history["B"] = <<>>
  /\ \/ "o2" \in DOMAIN orders /\ orders["o2"].status = "pending"
     \/ Len(emails) = 1

====
